---- MODULE Spec2Model ----
(***************************************************************************)
(* A model of script.py: the catalogue scraper's ingestion pipeline.       *)
(*   get_all_products      the Catalog Lister                              *)
(*   get_product_details   the Detail Fetcher and the Merge Policy         *)
(*   save_product_to_file  the Daily Store                                 *)
(*   main                  the Poll Driver                                 *)
(*                                                                         *)
(* Specifications:                                                         *)
(*   Spec       main, with every call it makes                             *)
(*   SpecMerge  get_product_details alone, on every summary and every      *)
(*              detail response of the bounded sets                        *)
(***************************************************************************)
EXTENDS Integers, Sequences, FiniteSets, TLC

VARIABLES
    \* main
    pc,                \* where main is
    cycle,             \* how many times get_all_products has been invoked
    products_response, \* line 226: what get_all_products returned
    idx,               \* the for loop's position in products_response.products
    list_product_obj,  \* line 236
    product_details,   \* line 237
    exc,               \* the exception a handler holds, "" when none
    \* get_all_products
    response,          \* line 103: the listing response
    \* get_product_details
    detail_response,   \* line 143: the detail response
    \* save_product_to_file
    filename,          \* line 194: the day whose file this call works on
    data,              \* lines 197-211: the catalogue in memory
    \* the environment
    today,             \* the local clock's calendar day
    files,             \* data/products_<day>.json, for every day
    \* history
    prior,             \* the file as save_product_to_file found it
    written,           \* the days whose file save_product_to_file has written
    outcome,           \* this cycle: how each item attempted so far ended
    appended,          \* this cycle: the appends that returned, in order
    sinceList,         \* seconds slept in time.sleep(interval) since
                       \* get_all_products last returned
    interrupted,       \* where main was when a KeyboardInterrupt came, or ""
    requests,          \* this cycle: the items a detail request was sent for
    sinceFetch         \* milliseconds slept in line 242 since the last
                       \* detail request was sent

vars ==
    <<pc, cycle, products_response, idx, list_product_obj, product_details, exc,
      response, detail_response, filename, data, today, files, prior, written,
      outcome, appended, sinceList, interrupted, requests, sinceFetch>>

----------------------------------------------------------------------------
(* Values.  A JSON / Python value is kept by how the pydantic field it is  *)
(* bound to treats it:                                                     *)
(*   null   None                                                           *)
(*   plain  a value of the field's own type; validation returns it as is   *)
(*   loose  a value of another type that validation converts to the plain  *)
(*          value v (the string "7" for an int field, an object carrying   *)
(*          extra keys for a nested model)                                 *)
(*   wrong  a value validation rejects                                     *)

Null == [form |-> "null", v |-> ""]

Plain(t) == [form |-> "plain", v |-> t]

Loose(t) == [form |-> "loose", v |-> t]

Wrong == [form |-> "wrong", v |-> ""]

(* Python's Optional results and the outcome of a block of statements.     *)
None == [tag |-> "None"]

Some(x) == [tag |-> "Some", value |-> x]

Return(x) == [tag |-> "return", value |-> x]

Raise(e) == [tag |-> "raise", exc |-> e]

(* The empty dict, and the value of a slot that holds nothing yet.         *)
EmptyDict == [k \in {} |-> Null]

----------------------------------------------------------------------------
(* The pydantic models.                                                    *)

BaseProductFields ==
    {"id", "title", "permalink", "available", "availableUnits",
     "lineOfProduct", "pricing", "vertical", "thumbnail", "heroes"}

DetailFields ==
    {"description", "specifications", "variantConfiguration", "collection",
     "features", "dimensions", "additionalInfo"}

ProductFields == BaseProductFields \cup DetailFields

(* Optional[...] fields: they accept None, and default to None when the    *)
(* key is missing (the pydantic API the script is written against:         *)
(* .dict(), class Config).                                                 *)
BaseProductOptional == {"permalink"}

ProductOptional == {"permalink"} \cup DetailFields

(* One field's validation: its value, or a rejection.                      *)
FieldAccepts(optional, raw) ==
    \/ raw.form \in {"plain", "loose"}
    \/ raw.form = "null" /\ optional

FieldValue(raw) ==
    IF raw.form = "loose" THEN Plain(raw.v) ELSE raw

(* Building a model from keyword arguments, Config.extra = "ignore": keys   *)
(* that are no field are dropped, every field is validated, and a missing  *)
(* Optional field is None.                                                 *)
ValidateModel(fields, optional, kwargs) ==
    IF \A f \in fields :
           IF f \in DOMAIN kwargs
           THEN FieldAccepts(f \in optional, kwargs[f])
           ELSE f \in optional
    THEN Return([f \in fields |->
                    IF f \in DOMAIN kwargs THEN FieldValue(kwargs[f]) ELSE Null])
    ELSE Raise("ValidationError")

ListProduct(kwargs) == ValidateModel(BaseProductFields, BaseProductOptional, kwargs)

Product(kwargs) == ValidateModel(ProductFields, ProductOptional, kwargs)

----------------------------------------------------------------------------
(* get_product_details: the Detail Fetcher and the Merge Policy.           *)

(* The overlay without the two pricing guards (the test of line 162 and    *)
(* the assignment of line 166).                                            *)
MergeOverlayingPricing(list_dict, detailed_data) ==
    [k \in DOMAIN list_dict \cup {d \in DOMAIN detailed_data : detailed_data[d] # Null} |->
        IF k \in DOMAIN detailed_data /\ detailed_data[k] # Null
        THEN detailed_data[k]
        ELSE list_dict[k]]

(* The overlay without the None test of line 162.                         *)
MergeOverlayingNulls(list_dict, detailed_data) ==
    [k \in DOMAIN list_dict \cup DOMAIN detailed_data |->
        IF k = "pricing" /\ k \in DOMAIN list_dict
        THEN list_dict[k]
        ELSE IF k \in DOMAIN detailed_data THEN detailed_data[k] ELSE list_dict[k]]

(* Lines 151-166: the list view's dict, overlaid with every non-null key   *)
(* of the detailed view except pricing, pricing then set from the list     *)
(* view again.                                                             *)
merged_data(list_dict, detailed_data) ==
    LET pricing_data ==
            IF "pricing" \in DOMAIN list_dict THEN list_dict["pricing"] ELSE Null
        overlay == {d \in DOMAIN detailed_data :
                        detailed_data[d] # Null /\ d # "pricing"}
    IN  [k \in DOMAIN list_dict \cup overlay \cup {"pricing"} |->
            IF k = "pricing" THEN pricing_data
            ELSE IF k \in overlay THEN detailed_data[k]
            ELSE list_dict[k]]

(* Lines 143-174, the body of the try block: what it returns or raises.    *)
details_body(list_product, resp) ==
    IF resp.kind = "network_error" THEN Raise("RequestException")
    ELSE IF resp.kind = "http_error" THEN Raise("RequestException")
    ELSE IF resp.kind = "not_json" THEN Raise("RequestException")
    ELSE IF resp.shape \in {"empty", "no_data"} THEN Return(None)
    ELSE IF resp.shape = "data_not_dict" THEN Raise("AttributeError")
    ELSE LET made == Product(merged_data(list_product, resp.data))
         IN  IF made.tag = "raise" THEN Return(None)
             ELSE Return(Some(made.value))

(* Lines 142-181: both handlers log and return None.                       *)
get_product_details(list_product, resp) ==
    LET body == details_body(list_product, resp)
    IN  IF body.tag = "raise" THEN None ELSE body.value

----------------------------------------------------------------------------
(* get_all_products: the Catalog Lister.                                   *)
(* A listing response is a transport failure (kind), or a JSON body kept   *)
(* by its shape:                                                           *)
(*   empty          a falsy body                                           *)
(*   no_data        no "data" key                                          *)
(*   data_null      "data" holds a value the in operator cannot search     *)
(*   no_products    "data" holds no "products" key                         *)
(*   products_null  "products" holds a value that cannot be iterated       *)
(*   ok             "products" holds a list of dicts                       *)

(* ProductResponse keeping the entries that validate and dropping the      *)
(* others.                                                                 *)
ProductResponseSkippingInvalid(products_data) ==
    LET valid == SelectSeq(products_data, LAMBDA e : ListProduct(e).tag = "return")
    IN  Return([total_count |-> Len(valid),
                products |-> [i \in 1..Len(valid) |-> ListProduct(valid[i]).value]])

(* Lines 121-124: every entry validates as a ListProduct (the first        *)
(* member of the Union; Product requires the same fields), or the whole    *)
(* construction fails.                                                     *)
ProductResponse(products_data) ==
    IF \A i \in 1..Len(products_data) : ListProduct(products_data[i]).tag = "return"
    THEN Return([total_count |-> Len(products_data),
                 products |-> [i \in 1..Len(products_data) |->
                                  ListProduct(products_data[i]).value]])
    ELSE Raise("ValidationError")

(* Lines 113-124.                                                          *)
convert_products(resp) ==
    IF resp.shape = "products_null" THEN Raise("TypeError")
    ELSE ProductResponse(resp.products)

(* Line 127, inside the handler: the slice of the raw products.            *)
log_raw_products(resp) ==
    IF resp.shape = "products_null" THEN Raise("TypeError") ELSE Return(None)

(* Lines 103-128, the body of the outer try block.                         *)
list_body(resp) ==
    IF resp.kind \in {"network_error", "http_error", "not_json"}
    THEN Raise("RequestException")
    ELSE IF resp.shape \in {"empty", "no_data", "no_products"} THEN Return(None)
    ELSE IF resp.shape = "data_null" THEN Raise("TypeError")
    ELSE LET made == convert_products(resp)
         IN  IF made.tag = "return" THEN Return(Some(made.value))
             ELSE log_raw_products(resp)

(* Only requests.RequestException handled: any other exception escapes.    *)
GetAllProductsRequestErrorsOnly(resp) ==
    LET body == list_body(resp)
    IN  IF body.tag = "raise" /\ body.exc = "RequestException"
        THEN Return(None)
        ELSE body

(* Lines 102-136: RequestException and every other Exception end in        *)
(* return None.                                                            *)
get_all_products(resp) ==
    LET body == list_body(resp)
    IN  IF body.tag = "raise" THEN Return(None) ELSE body

----------------------------------------------------------------------------
(* save_product_to_file: the Daily Store.                                  *)
(* A day's file is kept by what reading it gives:                          *)
(*   absent       no file                                                  *)
(*   garbage      text json.load rejects with JSONDecodeError: an empty    *)
(*                file, or any proper prefix of a dumped catalogue         *)
(*   undecodable  bytes that are no text (UnicodeDecodeError)              *)
(*   json_other   JSON that is no object holding a "products" list         *)
(*   catalog      an object holding a "products" list; totalProducts is    *)
(*                whatever the object carries                              *)
(* Every value of a validated Product is a JSON value, so json.dump        *)
(* writes a record as it is and json.load reads it back the same.          *)

FileOf(kind, total, products) ==
    [kind |-> kind, totalProducts |-> total, products |-> products]

Absent == FileOf("absent", 0, <<>>)

Garbage == FileOf("garbage", 0, <<>>)

Undecodable == FileOf("undecodable", 0, <<>>)

JsonOther == FileOf("json_other", 0, <<>>)

Catalog(total, products) == FileOf("catalog", total, products)

(* Lines 203-207 starting fresh on whatever is no catalogue.               *)
LoadStartingFresh(file) ==
    IF file.kind = "catalog" THEN Return(file) ELSE Return(Catalog(0, <<>>))

(* Lines 196-207: the data the append starts from.                         *)
load_existing(file) ==
    IF file.kind = "absent" THEN Return(Catalog(0, <<>>))
    ELSE IF file.kind = "garbage" THEN Return(Catalog(0, <<>>))
    ELSE IF file.kind = "undecodable" THEN Raise("UnicodeDecodeError")
    ELSE Return(file)

(* Line 210 assigning a new list instead of appending to the loaded one.   *)
AppendOverwriting(loaded, record) ==
    IF loaded.kind # "catalog" THEN Raise("TypeError")
    ELSE Return(Catalog(1, <<record>>))

(* Line 211 incrementing the stored count instead of taking the length.    *)
AppendCounting(loaded, record) ==
    IF loaded.kind # "catalog" THEN Raise("TypeError")
    ELSE Return(Catalog(loaded.totalProducts + 1, Append(loaded.products, record)))

(* Line 210 replacing the records that carry the new record's id.          *)
AppendDeduplicating(loaded, record) ==
    IF loaded.kind # "catalog" THEN Raise("TypeError")
    ELSE LET others == SelectSeq(loaded.products, LAMBDA r : r["id"] # record["id"])
         IN  Return(Catalog(Len(others) + 1, Append(others, record)))

(* Lines 209-211.                                                          *)
append_product(loaded, record) ==
    IF loaded.kind # "catalog" THEN Raise("TypeError")
    ELSE LET products == Append(loaded.products, record)
         IN  Return(Catalog(Len(products), products))

----------------------------------------------------------------------------
(* The inputs of SpecMerge.                                                *)

(* A validated list-view product: ListProduct's ten fields, all plain,     *)
(* the permalink possibly None.                                            *)
Summary(id, permalink) ==
    [f \in BaseProductFields |->
        CASE f = "id" -> Plain(id)
          [] f = "permalink" -> permalink
          [] OTHER -> Plain("s")]

Ids == {"1", "2"}

Summaries == {Summary(i, p) : i \in Ids, p \in {Null, Plain("p")}}

(* The keys a detail payload may carry: a required list-view field, the    *)
(* optional one, pricing, a detailed-view field, and a key that is no      *)
(* field of Product.                                                       *)
PayloadKeys == {"id", "permalink", "pricing", "description", "brand"}

PayloadValues == {Null, Plain("d"), Loose("d"), Wrong}

Payloads == UNION {[K -> PayloadValues] : K \in SUBSET PayloadKeys}

JsonDetail(shape, d) == [kind |-> "json", shape |-> shape, data |-> d]

FailedDetail(kind) == [kind |-> kind, shape |-> "", data |-> EmptyDict]

DetailFailures ==
    {FailedDetail("network_error"), FailedDetail("http_error"),
     FailedDetail("not_json"), JsonDetail("empty", EmptyDict),
     JsonDetail("no_data", EmptyDict), JsonDetail("data_not_dict", EmptyDict)}

DetailResponses == DetailFailures \cup {JsonDetail("ok", d) : d \in Payloads}

----------------------------------------------------------------------------
(* The inputs of Spec.                                                     *)

MaxItems == 2

MaxCycles == 2

MaxDay == 2

Days == 1..MaxDay

(* A products entry that lacks a required field.                           *)
BadEntry == [f \in BaseProductFields \ {"title"} |-> Plain("s")]

(* The list-view product the driver's listings are made of; a listing may  *)
(* hold it several times, each entry being an item of its own.             *)
DriverSummaries == {Summary("1", Plain("p"))}

ListEntries == DriverSummaries \cup {BadEntry}

Listings == UNION {[1..n -> ListEntries] : n \in 0..MaxItems}

JsonListing(shape, entries) == [kind |-> "json", shape |-> shape, products |-> entries]

FailedListing(kind) == [kind |-> kind, shape |-> "", products |-> <<>>]

NoResponse == FailedListing("")

ListFailures ==
    {FailedListing("network_error"), FailedListing("http_error"),
     FailedListing("not_json")}
    \cup {JsonListing(sh, <<>>) :
            sh \in {"empty", "no_data", "data_null", "no_products", "products_null"}}

ListResponses == ListFailures \cup {JsonListing("ok", l) : l \in Listings}

(* Detail payloads of the driver: one that merges, carrying its own        *)
(* pricing and a key Product ignores, and one Product rejects.             *)
GoodPayload == [k \in {"description", "pricing", "brand"} |-> Plain("d")]

BadPayload == [k \in {"id"} |-> Wrong]

DriverDetailResponses ==
    {FailedDetail("network_error"), FailedDetail("http_error"),
     JsonDetail("no_data", EmptyDict), JsonDetail("ok", GoodPayload),
     JsonDetail("ok", BadPayload)}

(* What the first day's file may hold when the scraper starts: nothing,    *)
(* something unreadable, or a catalogue left by an earlier run or by       *)
(* another hand (a record of another product), its totalProducts right or  *)
(* stale.                                                                  *)
OldRecord == Product(merged_data(Summary("2", Plain("p")), GoodPayload)).value

PriorFiles ==
    {Absent, Garbage, Undecodable, JsonOther, Catalog(0, <<>>),
     Catalog(1, <<OldRecord>>), Catalog(0, <<OldRecord>>)}

NoProduct == [f \in BaseProductFields |-> Null]

NoDetail == FailedDetail("")

----------------------------------------------------------------------------
(* main: the Poll Driver.                                                  *)

interval == 300

Init ==
    /\ pc = "loop_top"
    /\ cycle = 0
    /\ products_response = None
    /\ idx = 0
    /\ list_product_obj = NoProduct
    /\ product_details = None
    /\ exc = ""
    /\ response = NoResponse
    /\ detail_response = NoDetail
    /\ filename = 0
    /\ data = Absent
    /\ today = 1
    /\ \E f \in PriorFiles : files = [d \in Days |-> IF d = 1 THEN f ELSE Absent]
    /\ prior = Absent
    /\ written = {}
    /\ outcome = <<>>
    /\ appended = <<>>
    /\ sinceList = 0
    /\ interrupted = ""
    /\ requests = <<>>
    /\ sinceFetch = 0

(* Line 227 testing products_response alone.                               *)
TruthyNotNone(resp) == resp.tag = "Some"

(* Line 227.                                                               *)
Truthy(resp) == resp.tag = "Some" /\ Len(resp.value.products) > 0

Items == IF products_response.tag = "Some" THEN products_response.value.products ELSE <<>>

(* Line 226: get_all_products is called and sends its request.             *)
InvokeLister ==
    /\ pc = "loop_top"
    /\ cycle < MaxCycles
    /\ pc' = "listing"
    /\ cycle' = cycle + 1
    /\ UNCHANGED <<products_response, idx, list_product_obj, product_details,
                   exc, response, detail_response, filename, data, today,
                   files, prior, written, outcome, appended, sinceList,
                   interrupted,
                   requests, sinceFetch>>

(* Line 103: the transport answers.                                        *)
ReceiveListing ==
    /\ pc = "listing"
    /\ \E r \in ListResponses : response' = r
    /\ pc' = "listed"
    /\ UNCHANGED <<cycle, products_response, idx, list_product_obj,
                   product_details, exc, detail_response, filename, data,
                   today, files, prior, written, outcome, appended, sinceList,
                   interrupted,
                   requests, sinceFetch>>

(* Lines 104-136 and 226-228: get_all_products returns, main looks at the  *)
(* result. An exception leaving get_all_products lands in line 262.        *)
ReturnListing ==
    /\ pc = "listed"
    /\ LET got == get_all_products(response)
       IN  IF got.tag = "raise"
           THEN /\ pc' = "main_except"
                /\ exc' = got.exc
                /\ UNCHANGED <<products_response, idx>>
           ELSE /\ products_response' = got.value
                /\ pc' = IF Truthy(got.value) THEN "item" ELSE "wait"
                /\ idx' = 1
                /\ exc' = ""
    /\ sinceList' = 0
    /\ UNCHANGED <<cycle, list_product_obj, product_details, response,
                   detail_response, filename, data, today, files, prior,
                   written, outcome, appended, interrupted,
                   requests, sinceFetch>>

(* Lines 232-236: the for loop takes the next item and validates it again  *)
(* as a ListProduct; after the last item, lines 252 and 256.               *)
NextItem ==
    /\ pc = "item"
    /\ IF idx <= Len(Items)
       THEN LET made == ListProduct(Items[idx])
            IN  IF made.tag = "return"
                THEN /\ list_product_obj' = made.value
                     /\ pc' = "fetch"
                     /\ exc' = ""
                ELSE /\ pc' = "item_except"
                     /\ exc' = made.exc
                     /\ UNCHANGED list_product_obj
       ELSE /\ pc' = "wait"
            /\ UNCHANGED <<list_product_obj, exc>>
    /\ UNCHANGED <<cycle, products_response, idx, product_details, response,
                   detail_response, filename, data, today, files, prior,
                   written, outcome, appended, sinceList, interrupted,
                   requests, sinceFetch>>

(* Lines 237 and 143: get_product_details sends its request and the       *)
(* transport answers.                                                      *)
ReceiveDetails ==
    /\ pc = "fetch"
    /\ \E r \in DriverDetailResponses : detail_response' = r
    /\ requests' = Append(requests, idx)
    /\ sinceFetch' = 0
    /\ pc' = "fetched"
    /\ UNCHANGED <<cycle, products_response, idx, list_product_obj,
                   product_details, exc, response, filename, data, today,
                   files, prior, written, outcome, appended, sinceList,
                   interrupted>>

(* Lines 144-181 and 238: get_product_details returns the merged Product   *)
(* or None, and main looks at the result.                                  *)
ReturnDetails ==
    /\ pc = "fetched"
    /\ product_details' = get_product_details(list_product_obj, detail_response)
    /\ pc' = IF product_details'.tag = "Some" THEN "save_load" ELSE "item_sleep"
    /\ UNCHANGED <<cycle, products_response, idx, list_product_obj, exc,
                   response, detail_response, filename, data, today, files,
                   prior, written, outcome, appended, sinceList, interrupted,
                   requests, sinceFetch>>

(* Lines 189-211: the day is read from the clock, the day's file is read,  *)
(* the record is appended in memory.                                       *)
SaveLoad ==
    /\ pc = "save_load"
    /\ filename' = today
    /\ prior' = files[today]
    /\ LET loaded == load_existing(files[today])
           updated == append_product(loaded.value, product_details.value)
       IN  IF loaded.tag = "raise"
           THEN /\ pc' = "item_except"
                /\ exc' = loaded.exc
                /\ UNCHANGED data
           ELSE IF updated.tag = "raise"
           THEN /\ pc' = "item_except"
                /\ exc' = updated.exc
                /\ UNCHANGED data
           ELSE /\ pc' = "save_open"
                /\ data' = updated.value
                /\ UNCHANGED exc
    /\ UNCHANGED <<cycle, products_response, idx, list_product_obj,
                   product_details, response, detail_response, today, files,
                   written, outcome, appended, sinceList, interrupted,
                   requests, sinceFetch>>

(* Line 214: open(filename, 'w') truncates the file, or fails and leaves   *)
(* it alone.                                                               *)
SaveOpen ==
    /\ pc = "save_open"
    /\ \E ok \in BOOLEAN :
           IF ok
           THEN /\ files' = [files EXCEPT ![filename] = Garbage]
                /\ written' = written \cup {filename}
                /\ pc' = "save_dump"
                /\ UNCHANGED exc
           ELSE /\ pc' = "item_except"
                /\ exc' = "OSError"
                /\ UNCHANGED <<files, written>>
    /\ UNCHANGED <<cycle, products_response, idx, list_product_obj,
                   product_details, response, detail_response, filename, data,
                   today, prior, outcome, appended, sinceList, interrupted,
                   requests, sinceFetch>>

(* json.dump writing to the file of the day the clock shows now, not to    *)
(* the file opened in line 214.                                            *)
SaveDumpToClockDay ==
    /\ pc = "save_dump"
    /\ \E ok \in BOOLEAN :
           IF ok
           THEN /\ files' = [files EXCEPT ![today] = data]
                /\ appended' = Append(appended, [item |-> idx, day |-> today,
                                                 record |-> product_details.value])
                /\ pc' = "item_sleep"
                /\ UNCHANGED exc
           ELSE /\ pc' = "item_except"
                /\ exc' = "OSError"
                /\ UNCHANGED <<files, appended>>
    /\ UNCHANGED <<cycle, products_response, idx, list_product_obj,
                   product_details, response, detail_response, filename, data,
                   today, prior, written, outcome, sinceList, interrupted,
                   requests, sinceFetch>>

(* Lines 215-217 and 241: json.dump writes the catalogue and the call      *)
(* returns, or the write fails part way and leaves a prefix.               *)
SaveDump ==
    /\ pc = "save_dump"
    /\ \E ok \in BOOLEAN :
           IF ok
           THEN /\ files' = [files EXCEPT ![filename] = data]
                /\ appended' = Append(appended, [item |-> idx, day |-> filename,
                                                 record |-> product_details.value])
                /\ pc' = "item_sleep"
                /\ UNCHANGED exc
           ELSE /\ pc' = "item_except"
                /\ exc' = "OSError"
                /\ UNCHANGED <<files, appended>>
    /\ UNCHANGED <<cycle, products_response, idx, list_product_obj,
                   product_details, response, detail_response, filename, data,
                   today, prior, written, outcome, sinceList, interrupted,
                   requests, sinceFetch>>

(* What the iteration leaves behind: the locals nothing reads again.       *)
ItemDone(how) ==
    /\ outcome' = Append(outcome, how)
    /\ idx' = idx + 1
    /\ pc' = "item"
    /\ list_product_obj' = NoProduct
    /\ detail_response' = NoDetail
    /\ product_details' = None
    /\ exc' = ""
    /\ data' = Absent
    /\ prior' = Absent
    /\ filename' = 0

(* The handler leaving the for loop (break) instead of continuing.         *)
ItemAborts(how) ==
    /\ outcome' = Append(outcome, how)
    /\ idx' = Len(Items) + 1
    /\ pc' = "item"
    /\ list_product_obj' = NoProduct
    /\ detail_response' = NoDetail
    /\ product_details' = None
    /\ exc' = ""
    /\ data' = Absent
    /\ prior' = Absent
    /\ filename' = 0

(* The handler going back to the item that failed instead of continuing   *)
(* with the next one.                                                      *)
ItemRetries(how) ==
    /\ outcome' = Append(outcome, how)
    /\ idx' = idx
    /\ pc' = "item"
    /\ list_product_obj' = NoProduct
    /\ detail_response' = NoDetail
    /\ product_details' = None
    /\ exc' = ""
    /\ data' = Absent
    /\ prior' = Absent
    /\ filename' = 0

(* Lines 243-250: the handler logs the item's id and continues.            *)
item_failed(how) == ItemDone(how)

(* Line 242: time.sleep(0.1), in milliseconds.                            *)
item_delay_ms == 100

item_delay(elapsed) == elapsed + item_delay_ms

(* Line 242: the delay after an item that raised nothing.                  *)
ItemSleep ==
    /\ pc = "item_sleep"
    /\ ItemDone(IF product_details.tag = "Some" THEN "saved" ELSE "skipped")
    /\ sinceFetch' = item_delay(sinceFetch)
    /\ UNCHANGED <<cycle, products_response, response, today, files, written,
                   appended, sinceList, interrupted,
                   requests>>

ItemExcept ==
    /\ pc = "item_except"
    /\ item_failed("failed")
    /\ UNCHANGED <<cycle, products_response, response, today, files, written,
                   appended, sinceList, interrupted,
                   requests, sinceFetch>>

(* The locals of one cycle, which nothing reads once the cycle is over:    *)
(* line 226 assigns products_response before anything reads it again.      *)
CycleOver ==
    /\ products_response' = None
    /\ idx' = 0
    /\ list_product_obj' = NoProduct
    /\ product_details' = None
    /\ response' = NoResponse
    /\ detail_response' = NoDetail
    /\ filename' = 0
    /\ data' = Absent
    /\ prior' = Absent
    /\ outcome' = <<>>
    /\ appended' = <<>>
    /\ requests' = <<>>
    /\ sinceFetch' = 0

(* Line 257: time.sleep(interval) returns.                                 *)
Sleep ==
    /\ pc = "wait"
    /\ pc' = "loop_top"
    /\ sinceList' = sinceList + interval
    /\ CycleOver
    /\ UNCHANGED <<cycle, exc, today, files, written, interrupted>>

(* The handler of line 262 raising the exception again.                    *)
MainExceptReraises ==
    /\ pc = "main_except"
    /\ pc' = "uncaught"
    /\ UNCHANGED <<cycle, products_response, idx, list_product_obj,
                   product_details, exc, response, detail_response, filename,
                   data, today, files, prior, written, outcome, appended,
                   sinceList, interrupted, requests, sinceFetch>>

(* Lines 262-263: the handler of the cycle logs the exception.             *)
MainExcept ==
    /\ pc = "main_except"
    /\ pc' = "error_wait"
    /\ UNCHANGED <<cycle, products_response, idx, list_product_obj,
                   product_details, exc, response, detail_response, filename,
                   data, today, files, prior, written, outcome, appended,
                   sinceList, interrupted,
                   requests, sinceFetch>>

(* The handler of line 262 without its sleep.                              *)
ErrorSleepSkipped(elapsed) == elapsed

(* Line 264: time.sleep(interval) in the handler.                          *)
error_sleep(elapsed) == elapsed + interval

ErrorSleep ==
    /\ pc = "error_wait"
    /\ pc' = "loop_top"
    /\ sinceList' = error_sleep(sinceList)
    /\ exc' = ""
    /\ UNCHANGED <<cycle, products_response, idx, list_product_obj,
                   product_details, response, detail_response, filename, data,
                   today, files, prior, written, outcome, appended, interrupted,
                   requests, sinceFetch>>

(* The statements of lines 224-257, which the try statement covers; its    *)
(* handlers (lines 259-264) are outside it.                                *)
InTry ==
    {"loop_top", "listing", "listed", "item", "fetch", "fetched", "save_load",
     "save_open", "save_dump", "item_sleep", "item_except", "wait"}

InHandler == {"main_except", "error_wait"}

(* The two calls of time.sleep(interval): lines 257 and 264.               *)
Sleeping == {"wait", "error_wait"}

(* Where a KeyboardInterrupt raised at `at` takes main. No except          *)
(* Exception clause holds it; line 259 does, for the statements of the     *)
(* try block: lines 260-261 log and leave the loop. Raised in the handler  *)
(* of line 262 it leaves main uncaught.                                    *)
interrupt_target(at) == IF at \in InTry THEN "stopped" ELSE "uncaught"

(* A KeyboardInterrupt, wherever main is. main ends, and of its state      *)
(* only the files remain.                                                  *)
Interrupt ==
    /\ pc \in InTry \cup InHandler
    /\ interrupted' = pc
    /\ pc' = interrupt_target(pc)
    /\ exc' = "KeyboardInterrupt"
    /\ CycleOver
    /\ UNCHANGED <<cycle, today, files, written, sinceList>>

(* An exception raised by main's own statements, outside the try of one    *)
(* item: lines 227-232, 245-257. It unwinds to line 262.                   *)
OrchestrationError ==
    /\ pc \in {"item", "item_except", "wait"}
    /\ pc' = "main_except"
    /\ exc' = "Exception"
    /\ CycleOver
    /\ UNCHANGED <<cycle, today, files, written, sinceList, interrupted>>

(* The local clock passes midnight. The clock is read in line 193 only,    *)
(* so midnight is let pass where it can matter: right before that read,    *)
(* and between it and the write.                                           *)
Midnight ==
    /\ pc \in {"save_load", "save_open", "save_dump"}
    /\ today < MaxDay
    /\ today' = today + 1
    /\ UNCHANGED <<pc, cycle, products_response, idx, list_product_obj,
                   product_details, exc, response, detail_response, filename,
                   data, files, prior, written, outcome, appended, sinceList,
                   interrupted,
                   requests, sinceFetch>>

Next ==
    \/ InvokeLister
    \/ ReceiveListing
    \/ ReturnListing
    \/ NextItem
    \/ ReceiveDetails
    \/ ReturnDetails
    \/ SaveLoad
    \/ SaveOpen
    \/ SaveDump
    \/ ItemSleep
    \/ ItemExcept
    \/ Sleep
    \/ MainExcept
    \/ ErrorSleep
    \/ Interrupt
    \/ OrchestrationError
    \/ Midnight

Spec == Init /\ [][Next]_vars

----------------------------------------------------------------------------
(* SpecLive: main when no KeyboardInterrupt arrives and every call         *)
(* returns. The clock stays on the first day: the day decides only which   *)
(* file an append works on, and the first day's file starts with every     *)
(* content a file can have.                                                *)

(* The steps main takes by itself: the interpreter runs the next           *)
(* statement, a request or a sleep that was started returns.               *)
MainStep ==
    \/ InvokeLister
    \/ ReceiveListing
    \/ ReturnListing
    \/ NextItem
    \/ ReceiveDetails
    \/ ReturnDetails
    \/ SaveLoad
    \/ SaveOpen
    \/ SaveDump
    \/ ItemSleep
    \/ ItemExcept
    \/ Sleep
    \/ MainExcept
    \/ ErrorSleep

NextUninterrupted ==
    \/ InvokeLister
    \/ ReceiveListing
    \/ ReturnListing
    \/ NextItem
    \/ ReceiveDetails
    \/ ReturnDetails
    \/ SaveLoad
    \/ SaveOpen
    \/ SaveDump
    \/ ItemSleep
    \/ ItemExcept
    \/ Sleep
    \/ MainExcept
    \/ ErrorSleep
    \/ OrchestrationError

SpecLive == Init /\ [][NextUninterrupted]_vars /\ WF_vars(MainStep)

----------------------------------------------------------------------------
(* SpecMerge: get_product_details on every summary and detail response.    *)

(* main is in line 237, get_product_details holds the response.           *)
MergeInit ==
    /\ pc = "fetched"
    /\ cycle = 1
    /\ \E s \in Summaries :
           /\ list_product_obj = s
           /\ products_response = Some([total_count |-> 1, products |-> <<s>>])
    /\ idx = 1
    /\ detail_response \in DetailResponses
    /\ product_details = None
    /\ exc = ""
    /\ response = NoResponse
    /\ filename = 0
    /\ data = Absent
    /\ today = 1
    /\ files = [d \in Days |-> Absent]
    /\ prior = Absent
    /\ written = {}
    /\ outcome = <<>>
    /\ appended = <<>>
    /\ sinceList = 0
    /\ interrupted = ""
    /\ requests = <<1>>
    /\ sinceFetch = 0

MergeNext == ReturnDetails

SpecMerge == MergeInit /\ [][MergeNext]_vars

----------------------------------------------------------------------------
(* SpecItems: the for loop of lines 232-250 on every listing of validated  *)
(* list-view products, with or without a permalink.                        *)

SummaryListings == UNION {[1..n -> Summaries] : n \in 1..MaxItems}

(* main is in line 232: get_all_products has returned the listing.         *)
ItemsInit ==
    /\ pc = "item"
    /\ cycle = 1
    /\ \E l \in SummaryListings :
           /\ response = JsonListing("ok", l)
           /\ products_response = get_all_products(JsonListing("ok", l)).value
    /\ idx = 1
    /\ list_product_obj = NoProduct
    /\ product_details = None
    /\ exc = ""
    /\ detail_response = NoDetail
    /\ filename = 0
    /\ data = Absent
    /\ today = 1
    /\ \E f \in PriorFiles : files = [d \in Days |-> IF d = 1 THEN f ELSE Absent]
    /\ prior = Absent
    /\ written = {}
    /\ outcome = <<>>
    /\ appended = <<>>
    /\ sinceList = 0
    /\ interrupted = ""
    /\ requests = <<>>
    /\ sinceFetch = 0

ItemsNext ==
    \/ NextItem
    \/ ReceiveDetails
    \/ ReturnDetails
    \/ SaveLoad
    \/ SaveOpen
    \/ SaveDump
    \/ ItemSleep
    \/ ItemExcept

SpecItems == ItemsInit /\ [][ItemsNext]_vars

----------------------------------------------------------------------------
(* Merge Policy claims, under SpecMerge.                                   *)

MergeProduced == pc = "save_load" /\ product_details.tag = "Some"

DetailData == detail_response.data

Overlaid(k) == k \in DOMAIN DetailData /\ DetailData[k] # Null

(* C3: whenever the merge produces a record, its pricing is the summary's  *)
(* pricing, also when the detail payload carries a non-null pricing.       *)
C3_PricingFromSummary ==
    MergeProduced => product_details.value["pricing"] = list_product_obj["pricing"]

C3_Witness ==
    /\ MergeProduced
    /\ Overlaid("pricing")
    /\ DetailData["pricing"] # list_product_obj["pricing"]
    /\ product_details.value["pricing"] = list_product_obj["pricing"]

(* C4 as stated: every non-null key of D other than pricing is in the      *)
(* record with D's value; every other key keeps S's value or is absent.    *)
C4_EveryDetailKeyKept ==
    MergeProduced =>
        /\ \A k \in DOMAIN DetailData \ {"pricing"} :
               DetailData[k] # Null =>
                   k \in DOMAIN product_details.value /\ product_details.value[k] = DetailData[k]
        /\ \A k \in (DOMAIN product_details.value \cup DOMAIN list_product_obj) \ {"pricing"} :
               ~Overlaid(k) =>
                   IF k \in DOMAIN list_product_obj
                   THEN k \in DOMAIN product_details.value /\ product_details.value[k] = list_product_obj[k]
                   ELSE k \notin DOMAIN product_details.value \/ product_details.value[k] = Null

(* C4 amended: whenever the merge produces a record, its keys are exactly  *)
(* Product's fields (a key of D that is no field is dropped); a field      *)
(* other than pricing that is non-null in D holds D's value as validated   *)
(* for that field: D's value itself when it has the field's type, the      *)
(* converted value otherwise; a field absent or null in D keeps S's value, *)
(* and is None when S lacks it too.                                        *)
C4_SchemaKeysOverlaid ==
    MergeProduced =>
        /\ DOMAIN product_details.value = ProductFields
        /\ \A k \in ProductFields \ {"pricing"} :
               IF Overlaid(k)
               THEN /\ DetailData[k].form = "plain" => product_details.value[k] = DetailData[k]
                    /\ DetailData[k].form = "loose" =>
                           product_details.value[k] = Plain(DetailData[k].v)
                    /\ DetailData[k].form # "wrong"
               ELSE IF k \in DOMAIN list_product_obj
                    THEN product_details.value[k] = list_product_obj[k]
                    ELSE product_details.value[k] = Null

C4_Witness ==
    /\ MergeProduced
    /\ Overlaid("id") /\ product_details.value["id"] = DetailData["id"]
    /\ Overlaid("description") /\ DetailData["description"].form = "loose"
    /\ Overlaid("brand")
    /\ "permalink" \in DOMAIN DetailData /\ DetailData["permalink"] = Null
    /\ product_details.value["permalink"] = list_product_obj["permalink"] /\ list_product_obj["permalink"] # Null

----------------------------------------------------------------------------
(* Daily Store claims, under Spec.                                         *)

(* The step in which save_product_to_file finishes its write and returns.  *)
AppendReturns == pc = "save_dump" /\ pc' = "item_sleep"

(* What the append parsed from the file it found: nothing from a missing   *)
(* file or from one json.load rejected.                                    *)
ParsedProducts == IF prior.kind = "catalog" THEN prior.products ELSE <<>>

Stored == files[filename]

CountId(products, id) ==
    Cardinality({i \in 1..Len(products) : products[i]["id"] = id})

(* C1: an append that returns leaves, in the file of the day it read, the  *)
(* products it parsed followed by the appended record: one element more,   *)
(* the earlier ones unchanged and in order.                                *)
C1_AppendAddsRecordLast ==
    [][AppendReturns =>
          /\ files'[filename].kind = "catalog"
          /\ files'[filename].products =
                 ParsedProducts \o <<product_details.value>>
          /\ Len(files'[filename].products) = Len(ParsedProducts) + 1]_vars

C1_Witness ==
    /\ pc = "item_sleep"
    /\ product_details.tag = "Some"
    /\ prior.kind = "catalog"
    /\ Len(prior.products) = 1
    /\ prior.products[1] # product_details.value
    /\ Stored.products = <<prior.products[1], product_details.value>>

(* C2: once save_product_to_file has written a day's file, whenever that   *)
(* file holds a catalogue its totalProducts is the length of its products, *)
(* whatever the file held before.                                          *)
C2_TotalIsLength ==
    \A d \in written :
        files[d].kind = "catalog" =>
            files[d].totalProducts = Len(files[d].products)

C2_Witness ==
    /\ pc = "item_sleep"
    /\ filename \in written
    /\ prior.kind = "catalog"
    /\ prior.totalProducts # Len(prior.products)
    /\ Stored.kind = "catalog"
    /\ Stored.totalProducts = Len(Stored.products)
    /\ Len(Stored.products) = 2

InvalidKinds == {"garbage", "undecodable", "json_other"}

(* C6 as stated: an append that finds a file with invalid content does     *)
(* not raise because of it (only the write itself can fail it).            *)
C6_InvalidContentRecovered ==
    (pc = "item_except" /\ prior.kind \in InvalidKinds) => exc = "OSError"

(* C7: an append that returns adds one entry for the record's id, also     *)
(* when the catalogue already holds records with that id.                  *)
C7_NoDeduplication ==
    [][AppendReturns =>
          LET id == product_details.value["id"]
          IN  CountId(files'[filename].products, id)
                  = CountId(ParsedProducts, id) + 1]_vars

C7_Witness ==
    /\ cycle = 2
    /\ pc = "wait"
    /\ Len(Items) = 1
    /\ Len(appended) = 1
    /\ files[today].kind = "catalog"
    /\ files[today].totalProducts = 2
    /\ Len(files[today].products) = 2
    /\ files[today].products[1]["id"] = files[today].products[2]["id"]
    /\ files[today].products[2] = appended[1].record

----------------------------------------------------------------------------
(* Catalog Lister and Poll Driver claims, under Spec.                      *)

(* The body is not the expected envelope, or holds no products array.      *)
BadEnvelope(resp) ==
    \/ resp.kind = "not_json"
    \/ resp.kind = "json" /\ resp.shape # "ok"

(* C8: get_all_products lets no exception reach main, and returns None     *)
(* when the body is not the expected envelope or has no products array.    *)
C8_ListerReturnsNone ==
    [][pc = "listed" =>
          /\ pc' # "main_except"
          /\ BadEnvelope(response) => products_response' = None]_vars

C8_Witness ==
    /\ pc = "wait"
    /\ response.kind = "json"
    /\ response.shape = "products_null"
    /\ products_response = None
    /\ exc = ""

SavedItems ==
    SelectSeq([i \in 1..Len(outcome) |-> i], LAMBDA i : outcome[i] = "saved")

(* C5: no failure of an item reaches the handler of the cycle; and when    *)
(* the for loop is over and main is about to sleep, every item of the      *)
(* listing has been attempted, and the appends that returned in the cycle  *)
(* are those of the items no step of which failed, in listing order.       *)
C5_FailuresIsolated ==
    /\ pc \in InHandler => exc = "Exception"
    /\ (pc = "wait" /\ Len(Items) > 0) =>
           /\ Len(outcome) = Len(Items)
           /\ [k \in 1..Len(appended) |-> appended[k].item] = SavedItems
           /\ \A k \in 1..Len(appended) :
                  appended[k].record["id"] = Items[appended[k].item]["id"]

C5_Witness ==
    /\ pc = "wait"
    /\ Len(Items) = 2
    /\ outcome = <<"failed", "saved">>
    /\ Len(appended) = 1
    /\ appended[1].item = 2

(* C9: get_all_products is invoked again only after time.sleep(interval)   *)
(* has run in full since it last returned.                                 *)
C9_IntervalObserved ==
    [][(pc = "loop_top" /\ pc' = "listing" /\ cycle >= 1) =>
          sinceList >= interval]_vars

C9_Witness ==
    /\ pc = "listing"
    /\ cycle = 2
    /\ sinceList = interval

(* C10 as stated: a KeyboardInterrupt that finds main listing, in an item, *)
(* in the sleep of line 257 or in the sleep of line 264 ends main in the   *)
(* handler of line 259.                                                    *)
C10_InterruptExitsCleanly ==
    interrupted \in InTry \cup {"error_wait"} => pc = "stopped"

----------------------------------------------------------------------------
(* Poll Driver claims, under SpecLive.                                     *)

(* C11: with no KeyboardInterrupt and every call returning, main never     *)
(* ends, whatever fails; every cycle that sends its listing request        *)
(* reaches one of the two sleeps, and every sleep is followed by the       *)
(* listing request of the next cycle (up to the MaxCycles cycles of the    *)
(* model).                                                                 *)
C11_NothingFatal ==
    /\ [](pc \notin {"stopped", "uncaught"})
    /\ \A c \in 1..MaxCycles :
           (pc = "listing" /\ cycle = c) ~> (pc \in Sleeping /\ cycle = c)
    /\ \A c \in 1..(MaxCycles - 1) :
           (pc \in Sleeping /\ cycle = c) ~> (pc = "listing" /\ cycle = c + 1)

(* The second cycle lists although the first lost the day's file to a      *)
(* failed write.                                                           *)
C11_Witness ==
    /\ pc = "listing"
    /\ cycle = 2
    /\ \E d \in written : files[d].kind = "garbage"

----------------------------------------------------------------------------
(* Daily Store claims about failures and days, under Spec.                 *)

(* An append is under way: save_product_to_file has read the day's file    *)
(* and main has not yet left the iteration.                                *)
InAppend == filename # 0

(* C12 as stated: at every point of an append of r onto parsed content P   *)
(* (here: P holding records), the day's file holds P or P followed by r.   *)
C12_RewriteAtomic ==
    (InAppend /\ prior.kind = "catalog" /\ Len(prior.products) > 0) =>
        /\ Stored.kind = "catalog"
        /\ Stored.products \in
               {prior.products, prior.products \o <<product_details.value>>}

----------------------------------------------------------------------------
(* Detail Fetcher claims, under SpecItems.                                 *)

(* C13 as stated: no detail request is sent for a listed product whose     *)
(* permalink is None.                                                      *)
C13_NoFetchWithoutPermalink ==
    \A k \in 1..Len(requests) : Items[requests[k]]["permalink"] # Null

----------------------------------------------------------------------------
(* Poll Driver claims about one cycle, under Spec.                         *)

(* get_all_products fails on the response or returns zero items.           *)
NothingListed(resp) ==
    LET got == get_all_products(resp).value
    IN  got.tag = "None" \/ Len(got.value.products) = 0

(* C14: when get_all_products fails or returns zero items, main goes from  *)
(* line 227 to the sleep of line 257 (or stops on a KeyboardInterrupt);    *)
(* and as long as the cycle has no items, no detail request is sent and    *)
(* no file changes.                                                        *)
C14_NothingListedSleeps ==
    /\ [][(pc = "listed" /\ NothingListed(response)) =>
             (pc' \in {"wait", "stopped"} /\ Len(Items') = 0)]_vars
    /\ [][Len(Items) = 0 => (files' = files /\ requests' = <<>>)]_vars

(* The second cycle's listing fails after the first cycle stored a record. *)
C14_Witness ==
    /\ pc = "wait"
    /\ cycle = 2
    /\ response.kind = "network_error"
    /\ products_response = None
    /\ requests = <<>>
    /\ today \in written
    /\ files[today].kind = "catalog"

Increasing(seq) == \A j, k \in 1..Len(seq) : j < k => seq[j] < seq[k]

AppendedItems == [k \in 1..Len(appended) |-> appended[k].item]

(* C15: within one cycle no item has two detail requests or two appends;   *)
(* an append is started only after the item's own detail request, for an   *)
(* item no append has returned for; the listing request is sent only at    *)
(* the top of the loop, which main reaches again only from one of the      *)
(* sleeps.                                                                 *)
C15_NoRetryInCycle ==
    /\ [](Increasing(requests) /\ Increasing(AppendedItems))
    /\ [][(pc' = "save_load" /\ pc # "save_load") =>
             /\ pc = "fetched"
             /\ requests # <<>> /\ requests[Len(requests)] = idx
             /\ \A k \in 1..Len(appended) : appended[k].item < idx]_vars
    /\ [][(pc' = "fetch" /\ pc # "fetch") => pc = "item"]_vars
    /\ [][(pc' = "listing" /\ pc # "listing") => pc = "loop_top"]_vars
    /\ [][(pc' = "loop_top" /\ pc # "loop_top") => pc \in Sleeping]_vars

(* Both items of the second cycle were tried once and neither was stored.  *)
C15_Witness ==
    /\ pc = "wait"
    /\ cycle = 2
    /\ outcome = <<"failed", "skipped">>
    /\ requests = <<1, 2>>
    /\ appended = <<>>

(* C16 as stated: a detail request that follows another one of the same    *)
(* cycle is sent only after the delay of line 242 has elapsed since that   *)
(* one, however the earlier item ended.                                    *)
C16_DelayBetweenRequests ==
    [][(pc = "fetch" /\ pc' = "fetched" /\ requests # <<>>) =>
          sinceFetch >= item_delay_ms]_vars

(* Between operations: the top of the loop, the for statement between two  *)
(* items, the delay after an item, and the two sleeps.                     *)
Boundaries == {"loop_top", "item", "item_sleep"} \cup Sleeping

(* C17 as stated: a KeyboardInterrupt ends main only at a boundary; the    *)
(* request or the item in progress when it arrives is completed first.     *)
C17_InterruptAtBoundary ==
    pc \in {"stopped", "uncaught"} => interrupted \in Boundaries

(* C18: an append that raises before json.dump runs (in lines 202-211, or  *)
(* in open at line 214) leaves every file as it was; on a file that holds  *)
(* JSON that is no catalogue it raises in line 210, before line 214, and   *)
(* ends in the handler of the item; such a file is never changed, so       *)
(* every later append on it fails the same way.                            *)
C18_FailedAppendLeavesFile ==
    /\ [][(pc \in {"save_load", "save_open"} /\ pc' = "item_except") =>
             files' = files]_vars
    /\ [][(pc = "save_load" /\ files[today].kind = "json_other"
                            /\ pc' # "save_load") =>
             /\ pc' \in {"item_except", "stopped"}
             /\ pc' = "item_except" => exc' = "TypeError"]_vars
    /\ [][\A d \in Days :
               files[d].kind = "json_other" => files'[d] = files[d]]_vars

(* In the second cycle the append of the second item fails on the same     *)
(* file as the one of the first.                                           *)
C18_Witness ==
    /\ pc = "item_except"
    /\ cycle = 2
    /\ idx = 2
    /\ outcome = <<"failed">>
    /\ prior.kind = "json_other"
    /\ exc = "TypeError"
    /\ Stored = prior

(* C19: save_product_to_file works on the file of the day the clock shows  *)
(* when line 193 runs; a step changes no file but the one of that day,     *)
(* also when midnight passes before the write; and every file written      *)
(* that holds a catalogue has totalProducts equal to the length of its     *)
(* products, on either side of midnight.                                   *)
C19_OnlyTheDayRead ==
    /\ [][(pc = "save_load" /\ pc' \in {"save_open", "item_except"}) =>
             (filename' = today /\ prior' = files[today])]_vars
    /\ [][\A d \in Days :
               files'[d] # files[d] => (InAppend /\ d = filename)]_vars
    /\ [](\A d \in written :
              files[d].kind = "catalog" =>
                  files[d].totalProducts = Len(files[d].products))

(* One cycle stored its first record before midnight and its second after  *)
(* it: each is in the file of its own day.                                 *)
C19_Witness ==
    /\ pc = "wait"
    /\ Len(appended) = 2
    /\ appended[1].day = 1 /\ appended[2].day = 2
    /\ today = 2
    /\ files[1].kind = "catalog" /\ files[2].kind = "catalog"
    /\ files[1].products[Len(files[1].products)] = appended[1].record
    /\ files[2].products = <<appended[2].record>>
    /\ files[1].totalProducts = Len(files[1].products)
    /\ files[2].totalProducts = 1

----------------------------------------------------------------------------
(* Catalog Lister claims about the shape of entries, under Spec.           *)

(* The products array holds an entry that is no valid list-view product.   *)
HasBadEntry(resp) ==
    /\ resp.kind = "json"
    /\ resp.shape = "ok"
    /\ \E i \in 1..Len(resp.products) : ListProduct(resp.products[i]).tag = "raise"

(* C20: when one entry of the products array fails validation,             *)
(* get_all_products returns None for the whole listing and main goes to    *)
(* the sleep of line 257; in that cycle no detail request is sent, no      *)
(* append returns and no file changes, whatever well-formed entries the    *)
(* array holds.                                                            *)
C20_ListingAllOrNothing ==
    /\ [][(pc = "listed" /\ HasBadEntry(response)) =>
             (products_response' = None /\ pc' \in {"wait", "stopped"})]_vars
    /\ [](HasBadEntry(response) => (requests = <<>> /\ appended = <<>>))
    /\ [][HasBadEntry(response) => files' = files]_vars

(* A listing with a well-formed entry before the malformed one.            *)
C20_Witness ==
    /\ pc = "wait"
    /\ Len(response.products) = 2
    /\ ListProduct(response.products[1]).tag = "return"
    /\ ListProduct(response.products[2]).tag = "raise"
    /\ products_response = None
    /\ requests = <<>>

====
